---- MODULE Spec2Model ----
(***************************************************************************)
(* NeuralTicker (src/main.py): a Streamlit page that fetches price history *)
(* for a ticker (memoized by st.cache_data), plots the closing price and   *)
(* asks a local Ollama chat model for a short analysis.                    *)
(*                                                                         *)
(* Spec        the page: widget edits and "Analyze Stock" presses, each    *)
(*             press running the script's handler step by step.            *)
(* SpecAnalyze analyze_with_ollama called directly on arbitrary            *)
(*             (data, ticker) arguments, any number of times.              *)
(***************************************************************************)
EXTENDS Integers, Sequences, FiniteSets

(* ------------------------------- state -------------------------------- *)
VARIABLES
    rawTicker,    \* value of the text_input widget
    period,       \* value of the selectbox widget
    ticker,       \* script variable ticker (line 91-94)
    pc,           \* position of the running script / call
    runs,         \* number of button presses so far
    cache,        \* st.cache_data store of fetch_stock_data
    okLookups,    \* remote lookups that returned, since process start
    runLookups,   \* remote lookups issued in the current run
    stock_data,   \* script variable stock_data / argument data
    trace,        \* operations started and ended in the current run
    chart,        \* what plot_stock_price drew in the current run
    chatCalls,    \* ollama.chat calls of the current analyze invocation
    chatRequest,  \* the request most recently sent to the chat service
    analysis,     \* value returned by analyze_with_ollama
    shown,        \* what the page shows at the end of the run
    exc,          \* description of the exception raised in the current run
    first         \* history: per key, what its first successful fetch returned

vars == << rawTicker, period, ticker, pc, runs, cache, okLookups,
           runLookups, stock_data, trace, chart, chatCalls, chatRequest,
           analysis, shown, exc, first >>

NoExc == ""
LookupError == "lookup failed"

(* ---------------------------- bounds ---------------------------------- *)
\* number of "Analyze Stock" presses explored
MaxRuns == 2
\* the longest series the provider returns
MaxRows == 12

(* ------------------------ program constants --------------------------- *)
\* data.tail(10)
TailN == 10

\* st.selectbox options and the default option (index=1)
Windows == <<"5d", "1mo", "3mo", "6mo", "1y">>
WindowSet == {Windows[i] : i \in 1..Len(Windows)}
DefaultWindow == Windows[2]

\* columns kept for the prompt, in the order of the selection list
PromptColumns == <<"Open", "High", "Low", "Close", "Volume">>

ModelName == "NeuralTicker"
NoDataMsg == "No data available for analysis."
ErrorPrefix == "LLM Error: "

(* ------------------------------ inputs -------------------------------- *)
\* what the user may type in the text box (a string is a sequence of
\* characters)
TickerInputs ==
    { <<>>, <<"a", "b">>, <<"A", "b">>, <<"z">> }

\* series lengths the provider answers with in the page runs (0: unknown
\* ticker)
ProviderLens == {0, MaxRows}

\* replies of the chat service and errors raised by the chat call
Replies == {"Trend is up. Hold."}
ChatErrors == {"connection refused", "model 'NeuralTicker' not found"}
\* a response without the "message" field: response["message"] raises
\* KeyError('message'), whose description is the quoted key
KeyErrorText == "'message'"

(* --------------------------- str.upper() ------------------------------ *)
UpperChar(c) ==
    CASE c = "a" -> "A"
      [] c = "b" -> "B"
      [] c = "z" -> "Z"
      [] OTHER -> c

\* the text box value used as typed
UpperIdentity(s) == s

Upper(s) == [i \in 1..Len(s) |-> UpperChar(s[i])]

LowerChars == {"a", "b", "z"}

(* ------------------------- the provider's table ----------------------- *)
\* one daily observation as yfinance returns it: the date index and seven
\* columns; the five prompt columns carry distinct values
Row(i) ==
    [ Date |-> i,
      Open |-> 10 * i + 1, High |-> 10 * i + 3, Low |-> 10 * i,
      Close |-> 10 * i + 2, Volume |-> 1000 + i,
      Dividends |-> 0, StockSplits |-> 0 ]

\* a date-ascending table of n observations
Series(n) == [i \in 1..n |-> Row(i)]

\* a test against None, which no table satisfies
EmptyIsNone(data) == FALSE

\* DataFrame.empty
Empty(data) == Len(data) = 0

\* DataFrame.head(n)
head(data, n) ==
    IF Len(data) <= n THEN data ELSE SubSeq(data, 1, n)

\* DataFrame.tail(n)
tail(data, n) ==
    IF Len(data) <= n THEN data
    ELSE SubSeq(data, Len(data) - n + 1, Len(data))

\* df[[...columns...]]: every row cut down to the listed columns, in order
Column(row, c) ==
    CASE c = "Open" -> row.Open
      [] c = "High" -> row.High
      [] c = "Low" -> row.Low
      [] c = "Close" -> row.Close
      [] c = "Volume" -> row.Volume

SelectColumns(data, cols) ==
    [ i \in 1..Len(data) |->
        [ Date |-> data[i].Date,
          cells |-> [j \in 1..Len(cols) |-> Column(data[i], cols[j])] ] ]

\* DataFrame.to_string(): a header line with the column names, then one
\* line per row with the index label followed by the cells
to_string(frame, cols) ==
    [ header |-> cols,
      lines |-> [i \in 1..Len(frame) |-> <<frame[i].Date>> \o frame[i].cells] ]

(* ------------------------------ prompt -------------------------------- *)
RecentData(data) == SelectColumns(tail(data, TailN), PromptColumns)

\* the f-string: fixed text with two holes, the ticker and the table
Prompt(data, tk) ==
    [ role |-> "You are a financial analyst.",
      ticker |-> tk,
      table |-> to_string(RecentData(data), PromptColumns),
      tasks |-> << "1. Identify short-term trend",
                   "2. Comment on volatility",
                   "3. Provide a Buy / Sell / Hold recommendation",
                   "4. Brief reasoning" >>,
      limit |-> "Limit response to 200 words." ]

\* the earlier messages kept and sent again with the new one
MessagesWithHistory(prompt) ==
    chatRequest.messages \o << [role |-> "user", content |-> prompt] >>

\* messages=[{"role": "user", "content": prompt}]
Messages(prompt) == << [role |-> "user", content |-> prompt] >>

ChatRequestOf(data, tk) ==
    [model |-> ModelName, messages |-> Messages(Prompt(data, tk))]

\* the description alone
ErrorResultBare(e) == e

\* f"LLM Error: {e}"
ErrorResult(e) == ErrorPrefix \o e

NoRequest == [model |-> "", messages |-> <<>>]

NoChart == [title |-> <<>>, x |-> <<>>, y |-> <<>>]
NoAnalysis == ""

\* the memoization key of the current call: the argument tuple
Key == <<ticker, period>>

\* no memoization: every call runs the body
CachedNever(k) == FALSE

Cached(k) == k \in DOMAIN cache

\* a store that keeps one entry only
CacheStoreEvict(c, k, v) == [kk \in {k} |-> v]

\* st.cache_data: add the computed value under the key, keep the rest
CacheStore(c, k, v) ==
    [kk \in DOMAIN c \cup {k} |-> IF kk = k THEN v ELSE c[kk]]

(* ------------------------------- page --------------------------------- *)
Init ==
    /\ rawTicker = <<>>
    /\ period = DefaultWindow
    /\ ticker = <<>>
    /\ pc = "idle"
    /\ runs = 0
    /\ cache = <<>>
    /\ okLookups = 0
    /\ runLookups = 0
    /\ stock_data = <<>>
    /\ trace = <<>>
    /\ chart = NoChart
    /\ chatCalls = 0
    /\ chatRequest = NoRequest
    /\ analysis = NoAnalysis
    /\ shown = "none"
    /\ exc = NoExc
    /\ first = <<>>

\* the user changes a widget: the script reruns with the button not pressed
EditInputs(raw, p) ==
    /\ pc = "idle"
    /\ <<raw, p>> # <<rawTicker, period>>
    /\ rawTicker' = raw
    /\ period' = p
    /\ ticker' = Upper(raw)
    /\ runLookups' = 0
    /\ stock_data' = <<>>
    /\ trace' = <<>>
    /\ chart' = NoChart
    /\ chatCalls' = 0
    /\ analysis' = NoAnalysis
    /\ shown' = "none"
    /\ exc' = NoExc
    /\ UNCHANGED << pc, runs, cache, okLookups, chatRequest, first >>

\* where the handler goes once the button is pressed (lines 103-107)
AfterPress(tk) == IF Len(tk) = 0 THEN "idle" ELSE "fetch"

\* st.button("Analyze Stock") is pressed
PressAnalyze ==
    /\ pc = "idle"
    /\ runs < MaxRuns
    /\ runs' = runs + 1
    /\ ticker' = Upper(rawTicker)
    /\ runLookups' = 0
    /\ stock_data' = <<>>
    /\ chart' = NoChart
    /\ chatCalls' = 0
    /\ analysis' = NoAnalysis
    /\ pc' = AfterPress(ticker')
    /\ IF pc' = "idle"
         THEN /\ shown' = "warning"
              /\ trace' = <<>>
         ELSE /\ shown' = "none"
              /\ trace' = << "fetch:start" >>
    /\ exc' = NoExc
    /\ UNCHANGED << rawTicker, period, cache, okLookups, chatRequest, first >>

\* fetch_stock_data, entry found in the cache: the stored value is returned
FetchHit ==
    /\ pc = "fetch"
    /\ Cached(Key)
    /\ stock_data' = cache[Key]
    /\ trace' = Append(trace, "fetch:end")
    /\ pc' = "fetched"
    /\ UNCHANGED << rawTicker, period, ticker, runs, cache, okLookups,
                    runLookups, chart, chatCalls, chatRequest, analysis,
                    shown, exc, first >>

\* fetch_stock_data, no entry: the body runs and issues the remote lookup
FetchMiss ==
    /\ pc = "fetch"
    /\ ~Cached(Key)
    /\ runLookups' = runLookups + 1
    /\ pc' = "lookup"
    /\ UNCHANGED << rawTicker, period, ticker, runs, cache, okLookups,
                    stock_data, trace, chart, chatCalls, chatRequest,
                    analysis, shown, exc, first >>

\* a failed lookup stored as an empty table
CacheEmptyOnRaise(c, k) ==
    [kk \in DOMAIN c \cup {k} |-> IF kk = k THEN <<>> ELSE c[kk]]

\* the cache after a failed body: exceptions are not stored
CacheAfterRaise(c, k) == c

\* stock.history returns a table of n rows (n = 0: unknown ticker)
LookupReturn(n) ==
    /\ pc = "lookup"
    /\ stock_data' = Series(n)
    /\ cache' = CacheStore(cache, Key, Series(n))
    /\ okLookups' = okLookups + 1
    /\ trace' = Append(trace, "fetch:end")
    /\ pc' = "fetched"
    /\ first' = IF Key \in DOMAIN first THEN first
                ELSE [k \in DOMAIN first \cup {Key} |->
                        IF k = Key THEN Series(n) ELSE first[k]]
    /\ UNCHANGED << rawTicker, period, ticker, runs, runLookups, chart,
                    chatCalls, chatRequest, analysis, shown, exc >>

\* stock.history raises: nothing catches it, the script run ends
LookupRaise ==
    /\ pc = "lookup"
    /\ cache' = CacheAfterRaise(cache, Key)
    /\ trace' = Append(trace, "fetch:raise")
    /\ shown' = "exception"
    /\ pc' = "idle"
    /\ exc' = LookupError
    /\ UNCHANGED << rawTicker, period, ticker, runs, okLookups, runLookups,
                    stock_data, chart, chatCalls, chatRequest, analysis,
                    first >>

\* the emptiness test left out
AfterFetchNoCheck(data) == "plot"

\* the analysis requested before the chart
AfterFetchAnalyzeFirst(data) == IF Empty(data) THEN "idle" ELSE "analyze"

\* where the handler goes after the fetch (lines 109-113)
AfterFetch(data) == IF Empty(data) THEN "idle" ELSE "plot"

\* if stock_data.empty: st.error(...) else: call plot_stock_price
CheckData ==
    /\ pc = "fetched"
    /\ pc' = AfterFetch(stock_data)
    /\ IF pc' = "idle"
         THEN /\ shown' = "error"
              /\ trace' = trace
         ELSE /\ shown' = shown
              /\ trace' = Append(trace, pc' \o ":start")
    /\ UNCHANGED << rawTicker, period, ticker, runs, cache, okLookups,
                    runLookups, stock_data, chart, chatCalls, chatRequest,
                    analysis, exc, first >>

\* plot_stock_price: closing price against the date index, titled with
\* the ticker; returns None
PlotStockPrice ==
    /\ pc = "plot"
    /\ chart' = [ title |-> ticker,
                  x |-> [i \in 1..Len(stock_data) |-> stock_data[i].Date],
                  y |-> [i \in 1..Len(stock_data) |-> stock_data[i].Close] ]
    /\ trace' = Append(trace, "plot:end")
    /\ pc' = "plotted"
    /\ UNCHANGED << rawTicker, period, ticker, runs, cache, okLookups,
                    runLookups, stock_data, chatCalls, chatRequest, analysis,
                    shown, exc, first >>

\* line 117: the handler calls analyze_with_ollama(stock_data, ticker)
CallAnalyze ==
    /\ pc = "plotted"
    /\ trace' = Append(trace, "analyze:start")
    /\ chatCalls' = 0
    /\ pc' = "analyze"
    /\ UNCHANGED << rawTicker, period, ticker, runs, cache, okLookups,
                    runLookups, stock_data, chart, chatRequest, analysis,
                    shown, exc, first >>

(* ----------------------- analyze_with_ollama -------------------------- *)
\* entry: the empty check, then the prompt is built and ollama.chat is
\* called with it
AnalyzeEnter ==
    /\ pc = "analyze"
    /\ IF Empty(stock_data)
         THEN /\ analysis' = NoDataMsg
              /\ trace' = Append(trace, "analyze:end")
              /\ pc' = "analyzed"
              /\ UNCHANGED << chatCalls, chatRequest >>
         ELSE /\ chatRequest' = ChatRequestOf(stock_data, ticker)
              /\ chatCalls' = chatCalls + 1
              /\ pc' = "chat"
              /\ UNCHANGED << analysis, trace >>
    /\ UNCHANGED << rawTicker, period, ticker, runs, cache, okLookups,
                    runLookups, stock_data, chart, shown, exc, first >>

\* what the try block returns for a response of the service
ReplyResult(resp) ==
    IF "message" \in DOMAIN resp THEN resp.message.content
    ELSE ErrorResult(KeyErrorText)

Responses ==
    {[message |-> [role |-> "assistant", content |-> r]] : r \in Replies}
        \cup {[error |-> "unexpected"]}

\* ollama.chat returns: response["message"]["content"] is returned
ChatReturn(resp) ==
    /\ pc = "chat"
    /\ analysis' = ReplyResult(resp)
    /\ trace' = Append(trace, "analyze:end")
    /\ pc' = "analyzed"
    /\ exc' = IF "message" \in DOMAIN resp THEN exc ELSE KeyErrorText
    /\ UNCHANGED << rawTicker, period, ticker, runs, cache, okLookups,
                    runLookups, stock_data, chart, chatCalls, chatRequest,
                    shown, first >>

\* ollama.chat raises: except Exception as e returns the error string
ChatRaise(e) ==
    /\ pc = "chat"
    /\ analysis' = ErrorResult(e)
    /\ trace' = Append(trace, "analyze:raise")
    /\ pc' = "analyzed"
    /\ exc' = e
    /\ UNCHANGED << rawTicker, period, ticker, runs, cache, okLookups,
                    runLookups, stock_data, chart, chatCalls, chatRequest,
                    shown, first >>

\* st.write(analysis): the run ends
WriteAnalysis ==
    /\ pc = "analyzed"
    /\ shown' = "analysis"
    /\ pc' = "idle"
    /\ UNCHANGED << rawTicker, period, ticker, runs, cache, okLookups,
                    runLookups, stock_data, trace, chart, chatCalls,
                    chatRequest, analysis, exc, first >>

Next ==
    \/ \E raw \in TickerInputs, p \in WindowSet : EditInputs(raw, p)
    \/ PressAnalyze
    \/ FetchHit
    \/ FetchMiss
    \/ \E n \in ProviderLens : LookupReturn(n)
    \/ LookupRaise
    \/ CheckData
    \/ PlotStockPrice
    \/ CallAnalyze
    \/ AnalyzeEnter
    \/ \E resp \in Responses : ChatReturn(resp)
    \/ \E e \in ChatErrors : ChatRaise(e)
    \/ WriteAnalysis

Spec == Init /\ [][Next]_vars

(* ------------------ analyze_with_ollama on its own -------------------- *)
\* arguments a caller may pass: any table, any ticker string
AnalyzeTickers == { <<"A", "B">>, <<"z">> }
AnalyzeLens == 0..MaxRows

InitAnalyze ==
    /\ rawTicker = <<>>
    /\ period = DefaultWindow
    /\ ticker \in AnalyzeTickers
    /\ pc = "analyze"
    /\ runs = 0
    /\ cache = <<>>
    /\ okLookups = 0
    /\ runLookups = 0
    /\ stock_data \in {Series(n) : n \in AnalyzeLens}
    /\ trace = << "analyze:start" >>
    /\ chart = NoChart
    /\ chatCalls = 0
    /\ chatRequest = NoRequest
    /\ analysis = NoAnalysis
    /\ shown = "none"
    /\ exc = NoExc
    /\ first = <<>>

\* the call has returned; the caller calls again with other arguments
Reinvoke(n, tk) ==
    /\ pc = "analyzed"
    /\ stock_data' = Series(n)
    /\ ticker' = tk
    /\ trace' = << "analyze:start" >>
    /\ chatCalls' = 0
    /\ analysis' = NoAnalysis
    /\ exc' = NoExc
    /\ pc' = "analyze"
    /\ UNCHANGED << rawTicker, period, runs, cache, okLookups, runLookups,
                    chart, chatRequest, shown, first >>

NextAnalyze ==
    \/ AnalyzeEnter
    \/ \E resp \in Responses : ChatReturn(resp)
    \/ \E e \in ChatErrors : ChatRaise(e)
    \/ \E n \in AnalyzeLens, tk \in AnalyzeTickers : Reinvoke(n, tk)

SpecAnalyze == InitAnalyze /\ [][NextAnalyze]_vars

(* ----------------------------- helpers -------------------------------- *)
Last(s) == s[Len(s)]
InTrace(e) == \E i \in 1..Len(trace) : trace[i] = e
\* position of the first occurrence of e in the trace, 0 when absent
Pos(e) ==
    IF InTrace(e) THEN CHOOSE i \in 1..Len(trace) :
                           /\ trace[i] = e
                           /\ \A j \in 1..(i - 1) : trace[j] # e
    ELSE 0

TypeOK ==
    /\ rawTicker \in TickerInputs
    /\ period \in WindowSet
    /\ runs \in 0..MaxRuns
    /\ okLookups \in 0..MaxRuns
    /\ chatCalls \in 0..1

SameModuloCase(s, t) ==
    /\ Len(s) = Len(t)
    /\ \A i \in 1..Len(s) :
         \/ s[i] = t[i]
         \/ {s[i], t[i]} \in {{"a", "A"}, {"b", "B"}, {"z", "Z"}}

(* ------------------------------ claims -------------------------------- *)

\* C1: a fetch whose (ticker, window) key has been fetched successfully
\* before returns a table equal to the one the first fetch returned and
\* issues no remote lookup, an empty first result included.
C1_Memoization ==
    [][ (pc = "fetch" /\ Key \in DOMAIN first) =>
          /\ pc' = "fetched"
          /\ stock_data' = first[Key]
          /\ runLookups' = 0
          /\ okLookups' = okLookups ]_vars

C1_Witness ==
    /\ pc = "fetched"
    /\ runLookups = 0
    /\ Key \in DOMAIN first
    /\ Empty(stock_data)

\* C2: when the chat call raises, analyze_with_ollama returns the string
\* "LLM Error: " followed by the error's description; a pending chat call
\* always ends with the function returning.
C2_LLMError ==
    /\ [](pc = "analyzed" /\ exc # "" =>
            /\ analysis = "LLM Error: " \o exc
            /\ SubSeq(analysis, 1, 11) = "LLM Error: ")
    /\ [][pc = "chat" => pc' = "analyzed"]_vars

C2_Witness ==
    /\ pc = "analyzed"
    /\ exc = "connection refused"
    /\ Len(stock_data) = 1

\* C3: called on an empty table, analyze_with_ollama returns exactly
\* "No data available for analysis." and sends nothing to the chat model.
C3_EmptyShortCircuit ==
    [][ (pc = "analyze" /\ Len(stock_data) = 0) =>
          /\ pc' = "analyzed"
          /\ analysis' = "No data available for analysis."
          /\ chatCalls' = 0
          /\ chatRequest' = chatRequest ]_vars

C3_Witness ==
    /\ pc = "analyzed"
    /\ Len(stock_data) = 0
    /\ analysis = "No data available for analysis."

\* C4: the prompt sent for a table of n > 0 rows carries the ticker and
\* exactly the last min(n, 10) rows, in order, each with its open, high,
\* low, close and volume.
C4_PromptTail ==
    pc = "chat" =>
      LET n == Len(stock_data)
          k == IF n < 10 THEN n ELSE 10
          c == chatRequest.messages[1].content
      IN  /\ c.ticker = ticker
          /\ c.table.header = <<"Open", "High", "Low", "Close", "Volume">>
          /\ Len(c.table.lines) = k
          /\ \A j \in 1..k :
               LET r == stock_data[n - k + j]
               IN  c.table.lines[j] =
                     <<r.Date, r.Open, r.High, r.Low, r.Close, r.Volume>>

C4_Witness ==
    /\ pc = "chat"
    /\ Len(stock_data) = 12
    /\ chatRequest.messages[1].content.table.lines[1][1] = 3

\* C5 as stated: in a run whose fetch returned an empty table the analysis
\* is the fixed "No data available" string, the chart is not drawn and no
\* chat call is made.
C5_Original ==
    (pc = "idle" /\ InTrace("fetch:end") /\ Len(stock_data) = 0) =>
        /\ analysis = "No data available for analysis."
        /\ ~InTrace("plot:start")
        /\ chatCalls = 0

\* C5 amended: in a run whose fetch returned an empty table neither
\* plot_stock_price nor analyze_with_ollama is invoked, no chat call is
\* made, and the run ends showing the "No data found" error.
C5_EmptyRun ==
    (InTrace("fetch:end") /\ Len(stock_data) = 0) =>
        /\ ~InTrace("plot:start")
        /\ ~InTrace("analyze:start")
        /\ chart = NoChart
        /\ analysis = NoAnalysis
        /\ chatCalls = 0
        /\ pc \in {"fetched", "idle"}
        /\ (pc = "idle" => shown = "error")

C5_Witness ==
    /\ pc = "idle"
    /\ shown = "error"
    /\ InTrace("fetch:end")

\* C6: in a run the fetch comes first; the chart is drawn only after a
\* fetch that returned a non-empty table, the analysis is requested only
\* after the chart is finished, and an operation that has started ends
\* before the next one starts.
C6_Sequential ==
    /\ (trace # <<>> => trace[1] = "fetch:start")
    /\ (InTrace("plot:start") =>
          /\ Pos("fetch:end") > 0
          /\ Pos("fetch:end") < Pos("plot:start")
          /\ Len(stock_data) > 0)
    /\ (InTrace("analyze:start") =>
          /\ Pos("plot:end") > 0
          /\ Pos("plot:start") < Pos("plot:end")
          /\ Pos("plot:end") < Pos("analyze:start")
          /\ Len(stock_data) > 0)
    /\ \A i \in 1..(Len(trace) - 1) :
         \A o \in {"fetch", "plot", "analyze"} :
           trace[i] = o \o ":start" =>
             trace[i + 1] \in {o \o ":end", o \o ":raise"}

C6_Witness ==
    /\ pc = "chat"
    /\ trace = << "fetch:start", "fetch:end", "plot:start", "plot:end",
                  "analyze:start" >>

\* C7: a remote lookup that raises ends the run with the exception shown,
\* after one lookup, with no chart and no analysis, and without a cache
\* entry for its key; a fetch of a key that has never been fetched
\* successfully issues a remote lookup.
C7_FetchFailure ==
    /\ []( (trace # <<>> /\ Last(trace) = "fetch:raise") =>
             /\ pc = "idle"
             /\ shown = "exception"
             /\ exc # ""
             /\ runLookups = 1
             /\ ~InTrace("plot:start")
             /\ ~InTrace("analyze:start")
             /\ chart = NoChart
             /\ analysis = NoAnalysis
             /\ chatCalls = 0
             /\ Key \notin DOMAIN cache )
    /\ [][ (pc = "fetch" /\ Key \notin DOMAIN first) =>
             (pc' = "lookup" /\ runLookups' = 1) ]_vars

C7_Witness ==
    /\ pc = "idle"
    /\ trace = << "fetch:start", "fetch:raise" >>
    /\ runs = 2

\* C8: once analyze_with_ollama has got past the empty check, exactly one
\* chat call has been made in the invocation, whether it returned or
\* raised, and the request carries one user message whose content is the
\* prompt of the current arguments.
C8_OneUserMessage ==
    (pc \in {"chat", "analyzed"} /\ Len(stock_data) > 0) =>
        /\ chatCalls = 1
        /\ chatRequest.model = "NeuralTicker"
        /\ Len(chatRequest.messages) = 1
        /\ chatRequest.messages[1].role = "user"
        /\ chatRequest.messages[1].content = Prompt(stock_data, ticker)

C8_Witness ==
    /\ pc = "analyzed"
    /\ Len(stock_data) > 0
    /\ exc = "model 'NeuralTicker' not found"

\* C9: the fetcher is called with a non-empty ticker without lowercase
\* letters and with one of the five windows; text box values that differ
\* only in letter case give the same key; a press with an empty text box
\* calls nothing.
C9_FetcherInput ==
    /\ (InTrace("fetch:start") =>
          /\ Len(ticker) > 0
          /\ \A i \in 1..Len(ticker) : ticker[i] \notin LowerChars
          /\ period \in {"5d", "1mo", "3mo", "6mo", "1y"}
          /\ \A raw \in TickerInputs :
               SameModuloCase(raw, rawTicker) => <<Upper(raw), period>> = Key)
    /\ (Len(rawTicker) = 0 =>
          /\ pc = "idle"
          /\ trace = <<>>
          /\ runLookups = 0
          /\ chart = NoChart
          /\ chatCalls = 0
          /\ analysis = NoAnalysis)

C9_Witness ==
    /\ pc = "fetch"
    /\ rawTicker = <<"a", "b">>
    /\ Key = << <<"A", "B">>, period >>

\* C10: a cache entry, once created, stays with its value; only a remote
\* lookup that returns adds an entry, and it adds the entry of its own key;
\* the entries are as many as the remote lookups that returned.
C10_CacheGrows ==
    /\ [](okLookups = Cardinality(DOMAIN cache))
    /\ [][ /\ \A k \in DOMAIN cache :
                k \in DOMAIN cache' /\ cache'[k] = cache[k]
           /\ (pc \in {"plot", "plotted", "analyze", "chat", "analyzed"} =>
                 cache' = cache)
           /\ (cache' # cache =>
                 /\ pc = "lookup"
                 /\ pc' = "fetched"
                 /\ Key \notin DOMAIN cache
                 /\ DOMAIN cache' = DOMAIN cache \cup {Key}) ]_vars

C10_Witness ==
    /\ pc = "analyzed"
    /\ Cardinality(DOMAIN cache) = 2
====
